---- MODULE Spec2Model ----
(***************************************************************************)
(* A model of the flocking simulation core of rusty-boids                  *)
(* (src/src/system.rs): the FlockingSystem aggregate, its lifecycle        *)
(* operations and the per-tick update; and of the loop of run_simulation   *)
(* (src/src/boids.rs) that drives it.                                      *)
(*                                                                         *)
(* Numbers.  The program computes in f32.  The model computes in fixed     *)
(* point: a real r is the integer r * Scale, products and quotients are    *)
(* truncated toward zero.  The one f32 value that is no real number and    *)
(* that the program can produce, NaN (0 * inf, from normalising a zero     *)
(* vector), is kept as the value NaN with IEEE semantics: arithmetic on    *)
(* NaN gives NaN and every ordered comparison with NaN is false.           *)
(* f32 rounding (the last ulp of a result) is outside the model.           *)
(***************************************************************************)
EXTENDS Integers, Sequences, FiniteSets, TLC

\* ------------------------------------------------------------------ bounds
\* Fixed-point resolution: one unit of the model is 1/Scale.
Scale == 100
\* Largest number of agents a run of the model creates.
MaxBoids == 2
\* Largest number of update() calls in a run of the model.
MaxTicks == 2
\* Largest number of events one poll_events call of the model delivers.
MaxEvents == 2
\* The random source is a finite-state generator; the model keeps the number
\* of samples drawn from it, modulo RngPeriod.
RngPeriod == 3

\* --------------------------------------------------------------- constants
MAX_SPEED == 2 * Scale
MAX_FORCE == Scale \div 10
SEP_WEIGHT == (15 * Scale) \div 10
ALI_WEIGHT == Scale
COH_WEIGHT == Scale
SEP_RADIUS == 25 * Scale
ALI_RADIUS == 50 * Scale
COH_RADIUS == 50 * Scale
SEP_RADIUS_2 == SEP_RADIUS * SEP_RADIUS
ALI_RADIUS_2 == ALI_RADIUS * ALI_RADIUS
COH_RADIUS_2 == COH_RADIUS * COH_RADIUS

\* ------------------------------------------------------------ f32 numbers
\* The f32 NaN.  Every other number of the model is far above this value.
NaN == -(2^30)

IsNaN(a) == a = NaN

Add(a, b) == IF IsNaN(a) \/ IsNaN(b) THEN NaN ELSE a + b

Sub(a, b) == IF IsNaN(a) \/ IsNaN(b) THEN NaN ELSE a - b

\* Ordered comparisons: false as soon as one side is NaN.
Lt(a, b) == ~IsNaN(a) /\ ~IsNaN(b) /\ a < b

Gt(a, b) == ~IsNaN(a) /\ ~IsNaN(b) /\ a > b

\* Integer quotient truncated toward zero (b > 0).
Quot(a, b) == IF a >= 0 THEN a \div b ELSE -((-a) \div b)

\* Product of two fixed-point numbers.
Mul(a, b) == IF IsNaN(a) \/ IsNaN(b) THEN NaN ELSE Quot(a * b, Scale)

RECURSIVE NewtonSqrt(_, _)
NewtonSqrt(n, x) ==
    LET y == (x + n \div x) \div 2
    IN  IF y >= x THEN x ELSE NewtonSqrt(n, y)

\* floor(sqrt(n)) for 0 <= n < 2^31.
ISqrt(n) == IF n = 0 THEN 0 ELSE NewtonSqrt(n, IF n > 46340 THEN 46340 ELSE n)

\* ceil(sqrt(n)).
CeilSqrt(n) == LET r == ISqrt(n) IN IF r * r = n THEN r ELSE r + 1

\* f32::sqrt of a squared length (units 1/Scale^2), as a length (units 1/Scale).
Sqrt(a) == IF IsNaN(a) THEN NaN ELSE ISqrt(a)

\* 1. / d for a length d > 0.
Recip(d) == IF IsNaN(d) THEN NaN ELSE (Scale * Scale) \div d

\* ---------------------------------------------------------------- vectors
Vec(x, y) == [x |-> x, y |-> y]

Zero == Vec(0, 0)

VAdd(u, v) == Vec(Add(u.x, v.x), Add(u.y, v.y))

VSub(u, v) == Vec(Sub(u.x, v.x), Sub(u.y, v.y))

\* scalar * vector, the scalar a fixed-point number.
VScale(k, v) == Vec(Mul(k, v.x), Mul(k, v.y))

magnitude2(v) ==
    IF IsNaN(v.x) \/ IsNaN(v.y) THEN NaN ELSE v.x * v.x + v.y * v.y

\* Guard digits of the magnitude taken in normalize_to: short vectors get two
\* more decimal digits, so that their direction is kept.
Guard(m2) == IF m2 < 200000 THEN 100 ELSE 1

\* cgmath's InnerSpace::normalize_to: self * (magnitude / self.magnitude()).
\* It has no special case for the zero vector: magnitude / 0 is inf and
\* 0 * inf is NaN in both components.  The result depends on the direction
\* of v only, so v may be given in any unit; len is in units 1/Scale.
normalize_to(v, len) ==
    LET m2 == magnitude2(v)
    IN  IF IsNaN(m2) \/ IsNaN(len) THEN Vec(NaN, NaN)
        ELSE IF m2 = 0 THEN Vec(NaN, NaN)
        ELSE LET k == Guard(m2)
                 mag == CeilSqrt(m2 * k * k)
             IN  Vec(Quot(v.x * len * k, mag), Quot(v.y * len * k, mag))

limit(force, max) ==
    IF Gt(magnitude2(force), max * max)
    THEN normalize_to(force, max)
    ELSE force

\* ------------------------------------------------------------------- Boid
Boid(position, velocity) == [position |-> position, velocity |-> velocity]

\* Boid::apply_force
boid_apply_force(boid, force) ==
    LET v1 == VAdd(boid.velocity, force)
        v2 == limit(v1, MAX_SPEED)
    IN  Boid(VAdd(boid.position, v2), v2)

\* A wrap by the remainder of the division by the bound.
wrap_to_modulo(boid, w, h) ==
    Boid(Vec(IF IsNaN(boid.position.x) THEN NaN ELSE boid.position.x % w,
             IF IsNaN(boid.position.y) THEN NaN ELSE boid.position.y % h),
         boid.velocity)

\* Boid::wrap_to: four tests, in this order, each on the current value.
wrap_to(boid, w, h) ==
    LET x1 == IF Lt(boid.position.x, 0) THEN w ELSE boid.position.x
        y1 == IF Lt(boid.position.y, 0) THEN h ELSE boid.position.y
        x2 == IF Gt(x1, w) THEN 0 ELSE x1
        y2 == IF Gt(y1, h) THEN 0 ELSE y1
    IN  Boid(Vec(x2, y2), boid.velocity)

steer(boid, target_vel) == limit(VSub(target_vel, boid.velocity), MAX_FORCE)

\* --------------------------------------------------------- FlockingSystem
\* The value of a FlockingSystem: self.boids, self.width, self.height and
\* the state of self.rng.
System(bs, w, h, r) == [boids |-> bs, width |-> w, height |-> h, rng |-> r]

\* FlockingSystem::new
new(size) == System(<<>>, size[1], size[2], 0)

\* One more sample taken from self.rng.
Sampled(self, n) == [self EXCEPT !.rng = (@ + n) % RngPeriod]

\* A sum of n vectors divided by n.  The quotient is kept exact by giving it
\* in units 1/(Scale * AvgDen), AvgDen a multiple of every neighbour count.
AvgDen == 2 * 3

Avg(acc, n) ==
    Vec(IF IsNaN(acc.x) THEN NaN ELSE Quot(acc.x * AvgDen, n),
        IF IsNaN(acc.y) THEN NaN ELSE Quot(acc.y * AvgDen, n))

\* A vector of units 1/Scale in the units of Avg.
InAvgUnits(v) ==
    Vec(IF IsNaN(v.x) THEN NaN ELSE v.x * AvgDen,
        IF IsNaN(v.y) THEN NaN ELSE v.y * AvgDen)

\* The accumulators of react_to_neighbours before its scan.
NoNeighbours ==
    [dodge |-> Zero, ali_vel_acc |-> Zero, ali_vel_count |-> 0,
     coh_pos_acc |-> Zero, coh_pos_count |-> 0]

\* A scan body that counts a neighbour for alignment and cohesion up to and
\* including the radius.
Visit_inclusive(bs, i, j, acc) ==
    LET d2 == magnitude2(VSub(bs[i].position, bs[j].position))
        sep == Lt(d2, SEP_RADIUS_2)
        ali == ~Gt(d2, ALI_RADIUS_2)
        coh == ~Gt(d2, COH_RADIUS_2)
    IN  IF i # j /\ Gt(d2, 0)
        THEN [dodge |->
                  IF sep
                  THEN VAdd(acc.dodge,
                            normalize_to(VSub(bs[i].position, bs[j].position),
                                         Recip(Sqrt(d2))))
                  ELSE acc.dodge,
              ali_vel_acc |->
                  IF ali THEN VAdd(acc.ali_vel_acc, bs[j].velocity)
                  ELSE acc.ali_vel_acc,
              ali_vel_count |->
                  IF ali THEN acc.ali_vel_count + 1 ELSE acc.ali_vel_count,
              coh_pos_acc |->
                  IF coh THEN VAdd(acc.coh_pos_acc, bs[j].position)
                  ELSE acc.coh_pos_acc,
              coh_pos_count |->
                  IF coh THEN acc.coh_pos_count + 1 ELSE acc.coh_pos_count]
        ELSE acc

\* The body of the scan of react_to_neighbours for one j.
Visit(bs, i, j, acc) ==
    IF i = j THEN acc
    ELSE LET boid == bs[i]
             other == bs[j]
             from_neighbour == VSub(boid.position, other.position)
             dist_squared == magnitude2(from_neighbour)
         IN  IF Gt(dist_squared, 0)
             THEN LET sep == Lt(dist_squared, SEP_RADIUS_2)
                      ali == Lt(dist_squared, ALI_RADIUS_2)
                      coh == Lt(dist_squared, COH_RADIUS_2)
                      repulse == Recip(Sqrt(dist_squared))
                  IN  [dodge |->
                           IF sep
                           THEN VAdd(acc.dodge,
                                     normalize_to(from_neighbour, repulse))
                           ELSE acc.dodge,
                       ali_vel_acc |->
                           IF ali THEN VAdd(acc.ali_vel_acc, other.velocity)
                           ELSE acc.ali_vel_acc,
                       ali_vel_count |->
                           IF ali THEN acc.ali_vel_count + 1
                           ELSE acc.ali_vel_count,
                       coh_pos_acc |->
                           IF coh THEN VAdd(acc.coh_pos_acc, other.position)
                           ELSE acc.coh_pos_acc,
                       coh_pos_count |->
                           IF coh THEN acc.coh_pos_count + 1
                           ELSE acc.coh_pos_count]
             ELSE acc

RECURSIVE Scan(_, _, _, _)
Scan(bs, i, j, acc) ==
    IF j > Len(bs) THEN acc ELSE Scan(bs, i, j + 1, Visit(bs, i, j, acc))

\* The force synthesis of react_to_neighbours from the accumulators.
Synthesis(boid, acc) ==
    LET f0 == Zero
        f1 == IF Gt(magnitude2(acc.dodge), 0)
              THEN LET d_steer == steer(boid, normalize_to(acc.dodge, MAX_SPEED))
                   IN  VAdd(f0, VScale(SEP_WEIGHT, d_steer))
              ELSE f0
        f2 == IF acc.ali_vel_count > 0
              THEN LET align == Avg(acc.ali_vel_acc, acc.ali_vel_count)
                       a_steer == steer(boid, normalize_to(align, MAX_SPEED))
                   IN  VAdd(f1, VScale(ALI_WEIGHT, a_steer))
              ELSE f1
        f3 == IF acc.coh_pos_count > 0
              THEN LET avg_pos == Avg(acc.coh_pos_acc, acc.coh_pos_count)
                       boid_pos == InAvgUnits(boid.position)
                       cohesion == VSub(avg_pos, boid_pos)
                       c_steer == steer(boid, normalize_to(cohesion, MAX_SPEED))
                   IN  VAdd(f2, VScale(COH_WEIGHT, c_steer))
              ELSE f2
    IN  f3

\* FlockingSystem::react_to_neighbours: reads self.boids as it is now.
react_to_neighbours(self, i) ==
    Synthesis(self.boids[i], Scan(self.boids, i, 1, NoNeighbours))

\* FlockingSystem::apply_force
apply_force(self, id, force) ==
    [self EXCEPT !.boids[id] =
        wrap_to(boid_apply_force(@, force), self.width, self.height)]

\* The loop of FlockingSystem::update from index i on.
RECURSIVE UpdateFrom(_, _)
UpdateFrom(self, i) ==
    IF i > Len(self.boids) THEN self
    ELSE UpdateFrom(apply_force(self, i, react_to_neighbours(self, i)), i + 1)

\* An update that takes a sample from self.rng.
update_sampling(self) == Sampled(UpdateFrom(self, 1), 1)

\* FlockingSystem::update
update(self) == UpdateFrom(self, 1)

\* A resize that wraps the agents to the new bounds at once.
resize_wrapping(self, size) ==
    [boids |-> [i \in 1..Len(self.boids) |->
                   wrap_to(self.boids[i], size[1], size[2])],
     width |-> size[1], height |-> size[2], rng |-> self.rng]

\* FlockingSystem::resize
resize(self, size) == [self EXCEPT !.width = size[1], !.height = size[2]]

\* FlockingSystem::positions
positions(self) == [i \in 1..Len(self.boids) |-> self.boids[i].position]

\* ----------------------------------------------------------- random source
\* What Range::new(low, high).ind_sample can return, among the values the
\* model draws from: low <= v < high.
Range(samples, low, high) == {v \in samples : low <= v /\ v < high}

\* The values the model draws a coordinate from.
XSamples == {0, 50 * Scale}

YSamples == {0, 10 * Scale}

\* The speeds the model draws from: at rest, and half of MAX_SPEED.
SpeedSamples == {0, Scale}

\* The angles the model draws from, each as the rotation by it (its cosine
\* and sine): pi/2.
AngleSamples == {[cos |-> 0, sin |-> Scale]}

\* Basis2::from_angle(a).rotate_vector(v)
rotate_vector(a, v) ==
    Vec(Sub(Mul(a.cos, v.x), Mul(a.sin, v.y)),
        Add(Mul(a.sin, v.x), Mul(a.cos, v.y)))

\* The two samples random_velocity takes from self.rng: the speed s and the
\* angle a.
VelDraws == [s : Range(SpeedSamples, 0, MAX_SPEED), a : AngleSamples]

\* The two samples random_position takes from self.rng.
PosDraws(self) ==
    [x : Range(XSamples, 0, self.width), y : Range(YSamples, 0, self.height)]

\* The samples of one agent's placement: a position, then a velocity.
Draws(self) == [pos : PosDraws(self), vel : VelDraws]

\* FlockingSystem::random_position: the point, and self with two samples taken.
random_position(self, d) ==
    [value |-> Vec(d.x, d.y), self |-> Sampled(self, 2)]

\* FlockingSystem::random_velocity: the velocity, and self with two samples taken.
random_velocity(self, d) ==
    [value |-> rotate_vector(d.a, Vec(0, d.s)), self |-> Sampled(self, 2)]

\* ------------------------------------------------------ lifecycle operations
\* The loop of add_boids from its k-th round on; draws[k] are the samples of
\* round k.
RECURSIVE AddFrom(_, _, _, _)
AddFrom(self, k, count, draws) ==
    IF k > count THEN self
    ELSE LET pos == random_position(self, draws[k].pos)
             vel == random_velocity(pos.self, draws[k].vel)
             pushed == [vel.self EXCEPT
                           !.boids = Append(@, Boid(pos.value, vel.value))]
         IN  AddFrom(pushed, k + 1, count, draws)

\* An add_boids whose loop skips its first round (1..count).
add_boids_short(self, count, draws) == AddFrom(self, 2, count, draws)

\* FlockingSystem::add_boids
add_boids(self, count, draws) == AddFrom(self, 1, count, draws)

RECURSIVE RandomiseFrom(_, _, _)
RandomiseFrom(self, i, draws) ==
    IF i > Len(self.boids) THEN self
    ELSE LET pos == random_position(self, draws[i].pos)
             vel == random_velocity(pos.self, draws[i].vel)
             set == [vel.self EXCEPT !.boids[i] = Boid(pos.value, vel.value)]
         IN  RandomiseFrom(set, i + 1, draws)

\* FlockingSystem::randomise
randomise(self, draws) == RandomiseFrom(self, 1, draws)

\* x / 2.
Half(a) == IF IsNaN(a) THEN NaN ELSE Quot(a, 2)

\* The loops of centralise and zeroise: every agent to the point p, with a
\* fresh random velocity.
RECURSIVE PlaceFrom(_, _, _, _)
PlaceFrom(self, i, p, draws) ==
    IF i > Len(self.boids) THEN self
    ELSE LET vel == random_velocity(self, draws[i])
             set == [vel.self EXCEPT !.boids[i] = Boid(p, vel.value)]
         IN  PlaceFrom(set, i + 1, p, draws)

\* A centralise that takes the bounds for the centre.
centralise_corner(self, draws) ==
    PlaceFrom(self, 1, Vec(self.width, self.height), draws)

\* FlockingSystem::centralise
centralise(self, draws) ==
    LET center == Vec(Half(self.width), Half(self.height))
    IN  PlaceFrom(self, 1, center, draws)

\* FlockingSystem::zeroise
zeroise(self, draws) == PlaceFrom(self, 1, Vec(0, 0), draws)

\* ------------------------------------------------------------------ state
VARIABLES
    boids,      \* self.boids
    width,      \* self.width
    height,     \* self.height
    rng,        \* the state of self.rng: samples drawn, modulo RngPeriod
    ret,        \* what the last call returned (positions()), <<>> otherwise
    op,         \* history: the last call, its name and its arguments
    ticks,      \* history: the number of update() calls so far
    running,    \* run_simulation: its local running
    pc,         \* run_simulation: where it is in its loop, or how it returned
    polled,     \* run_simulation: events handled so far by this poll_events
    rendered,   \* history: the number of renderer.render() calls so far
    pointer     \* the simulation's pointer-influence state

\* The variables of run_simulation besides its simulation.
driver == <<running, pc, polled, rendered, pointer>>

vars == <<boids, width, height, rng, ret, op, ticks, running, pc, polled,
          rendered, pointer>>

Self == System(boids, width, height, rng)

Store(self) ==
    /\ boids' = self.boids
    /\ width' = self.width
    /\ height' = self.height
    /\ rng' = self.rng

Call(name, arg) == [name |-> name, arg |-> arg]

\* No pointer influence: neither a target nor a polarity has been set.
NoPointer == [target |-> "None", polarity |-> "None"]

\* run_simulation has not been entered.
NoDriver ==
    /\ running = TRUE
    /\ pc = "none"
    /\ polled = 0
    /\ rendered = 0
    /\ pointer = NoPointer

\* The sizes the model constructs and resizes the system with.
Sizes == {<<60 * Scale, 20 * Scale>>, <<16 * Scale, 10 * Scale>>}

Init ==
    \E size \in Sizes :
        /\ boids = new(size).boids
        /\ width = new(size).width
        /\ height = new(size).height
        /\ rng = new(size).rng
        /\ ret = <<>>
        /\ op = Call("new", <<>>)
        /\ ticks = 0
        /\ NoDriver

AddBoids ==
    \E count \in 0..MaxBoids :
        /\ Len(boids) + count <= MaxBoids
        /\ \E draws \in [1..count -> Draws(Self)] :
               Store(add_boids(Self, count, draws))
        /\ ret' = <<>>
        /\ op' = Call("add_boids", <<count>>)
        /\ UNCHANGED ticks
        /\ UNCHANGED driver

Resize ==
    \E size \in Sizes :
        /\ Store(resize(Self, size))
        /\ ret' = <<>>
        /\ op' = Call("resize", size)
        /\ UNCHANGED ticks
        /\ UNCHANGED driver

Randomise ==
    /\ \E draws \in [1..Len(boids) -> Draws(Self)] :
           Store(randomise(Self, draws))
    /\ ret' = <<>>
    /\ op' = Call("randomise", <<>>)
    /\ UNCHANGED ticks
    /\ UNCHANGED driver

Centralise ==
    /\ \E draws \in [1..Len(boids) -> VelDraws] :
           Store(centralise(Self, draws))
    /\ ret' = <<>>
    /\ op' = Call("centralise", <<>>)
    /\ UNCHANGED ticks
    /\ UNCHANGED driver

Zeroise ==
    /\ \E draws \in [1..Len(boids) -> VelDraws] :
           Store(zeroise(Self, draws))
    /\ ret' = <<>>
    /\ op' = Call("zeroise", <<>>)
    /\ UNCHANGED ticks
    /\ UNCHANGED driver

Update ==
    /\ ticks < MaxTicks
    /\ Store(update(Self))
    /\ ret' = <<>>
    /\ op' = Call("update", <<>>)
    /\ ticks' = ticks + 1
    /\ UNCHANGED driver

Positions ==
    /\ ret' = positions(Self)
    /\ op' = Call("positions", <<>>)
    /\ UNCHANGED <<boids, width, height, rng, ticks>>
    /\ UNCHANGED driver

Next ==
    \/ AddBoids
    \/ Resize
    \/ Randomise
    \/ Centralise
    \/ Zeroise
    \/ Update
    \/ Positions

Spec == Init /\ [][Next]_vars

\* ------------------------------------------------------- wrap_to on its own
\* The coordinates wrap_to is applied to: far below 0, just below 0, 0,
\* inside, the bound of either size and just above it, far above, and NaN.
WrapSamples ==
    {-200 * Scale, -1, 0, 1, 10 * Scale, 10 * Scale + 1, 16 * Scale,
     16 * Scale + 1, 20 * Scale, 20 * Scale + 1, 60 * Scale, 60 * Scale + 1,
     200 * Scale, NaN}

InitWrap ==
    \E size \in Sizes, x \in WrapSamples, y \in WrapSamples :
        /\ boids = <<Boid(Vec(x, y), Zero)>>
        /\ width = size[1]
        /\ height = size[2]
        /\ rng = 0
        /\ ret = <<>>
        /\ op = Call("new", <<>>)
        /\ ticks = 0
        /\ NoDriver

\* boid.wrap_to(self.width, self.height), as apply_force calls it.
WrapTo ==
    /\ boids' = [boids EXCEPT ![1] = wrap_to(@, width, height)]
    /\ op' = Call("wrap_to", <<boids[1].position.x, boids[1].position.y>>)
    /\ UNCHANGED <<width, height, rng, ret, ticks>>
    /\ UNCHANGED driver

NextWrap == WrapTo

SpecWrap == InitWrap /\ [][NextWrap]_vars

\* ------------------------------------------- the neighbour scan on its own
\* The positions the scan is applied to.  From (0, 0) they are at the
\* distances 0, 24, 25 (the separation radius), 49 and 50 (the alignment and
\* cohesion radius); a position that is not a number stands for an agent that
\* an earlier tick has left without one.
ScanPositions ==
    {Vec(0, 0), Vec(24 * Scale, 0), Vec(15 * Scale, 20 * Scale),
     Vec(49 * Scale, 0), Vec(30 * Scale, 40 * Scale), Vec(NaN, NaN)}

ScanVelocities == {Vec(0, 0), Vec(Scale, -Scale)}

\* The agents the scan is applied to.
ScanBoids ==
    {Boid(p, v) : p \in ScanPositions \ {Vec(NaN, NaN)}, v \in ScanVelocities}
        \cup {Boid(Vec(NaN, NaN), Vec(NaN, NaN))}

\* The numbers of agents the scan is applied to.
ScanCounts == 1..3

InitScan ==
    \E n \in ScanCounts :
        \E bs \in [1..n -> ScanBoids] :
            /\ boids = bs
            /\ width = 60 * Scale
            /\ height = 60 * Scale
            /\ rng = 0
            /\ ret = <<>>
            /\ op = Call("new", <<>>)
            /\ ticks = 0
            /\ NoDriver

\* The scan of react_to_neighbours for agent i; ret holds the accumulators
\* it leaves.
ReactScan ==
    \E i \in 1..Len(boids) :
        /\ ret' = Scan(boids, i, 1, NoNeighbours)
        /\ op' = Call("scan", <<i>>)
        /\ UNCHANGED <<boids, width, height, rng, ticks>>
        /\ UNCHANGED driver

NextScan == ReactScan

SpecScan == InitScan /\ [][NextScan]_vars

\* ------------------------------------------------- run_simulation (boids.rs)
\* boids.rs drives a FlockingSystem that also keeps a pointer-influence
\* state; the three calls that touch it are given here by what they are to
\* do to that state.
\* FlockingSystem::set_mouse
set_mouse(p, x, y) == [p EXCEPT !.target = Vec(x, y)]

\* FlockingSystem::enable_mouse_attraction
enable_mouse_attraction(p) == [p EXCEPT !.polarity = "Attract"]

\* FlockingSystem::enable_mouse_repulsion
enable_mouse_repulsion(p) == [p EXCEPT !.polarity = "Repel"]

\* A glutin::Event.  window: it is an Event::WindowEvent; kind: the variant
\* of the WindowEvent; state, key: the ElementState and the virtual_keycode
\* of an input; x, y: the position of a CursorMoved.
Event(window, kind, state, key, x, y) ==
    [window |-> window, kind |-> kind, state |-> state, key |-> key,
     x |-> x, y |-> y]

\* The VirtualKeyCodes the model presses.
Keys == {"Escape", "Q", "R", "F", "C", "A"}

\* The events the model delivers: every key pressed, a key press without a
\* virtual_keycode, keys released, the pointer moved, its button pressed
\* and released, the window closed, another window event, and an event that
\* is no window event.
Events ==
    {Event(TRUE, "KeyboardInput", "Pressed", k, 0, 0) : k \in Keys \cup {"None"}}
        \cup {Event(TRUE, "KeyboardInput", "Released", k, 0, 0) : k \in {"Q", "R"}}
        \cup {Event(TRUE, "CursorMoved", "None", "None", 10 * Scale, 5 * Scale)}
        \cup {Event(TRUE, "MouseInput", st, "None", 0, 0) :
                   st \in {"Pressed", "Released"}}
        \cup {Event(TRUE, "Closed", "None", "None", 0, 0),
              Event(TRUE, "Focused", "None", "None", 0, 0),
              Event(FALSE, "Awakened", "None", "None", 0, 0)}

\* A ControlEvent, or None.
Control(type, key, x, y) == [type |-> type, key |-> key, x |-> x, y |-> y]

None == Control("None", "None", 0, 0)

process_keypress(key) ==
    IF key \in {"Escape", "Q"}
    THEN Control("Stop", "None", 0, 0)
    ELSE Control("Key", key, 0, 0)

process_window_event(e) ==
    CASE e.kind = "KeyboardInput" /\ e.state = "Pressed" /\ e.key # "None" ->
             process_keypress(e.key)
      [] e.kind = "CursorMoved" -> Control("MouseMove", "None", e.x, e.y)
      [] e.kind = "MouseInput" /\ e.state = "Pressed" ->
             Control("MousePress", "None", 0, 0)
      [] e.kind = "MouseInput" /\ e.state = "Released" ->
             Control("MouseRelease", "None", 0, 0)
      [] e.kind = "Closed" -> Control("Stop", "None", 0, 0)
      [] OTHER -> None

process_event(e) == IF e.window THEN process_window_event(e) ELSE None

\* The samples handle_key takes for key: those of randomise for R, those of
\* zeroise and centralise for F and C, none otherwise.
KeyDraws(self, key) ==
    CASE key = "R" -> [1..Len(self.boids) -> Draws(self)]
      [] key \in {"F", "C"} ->
             [1..Len(self.boids) -> [pos : {Vec(0, 0)}, vel : VelDraws]]
      [] OTHER -> {<<>>}

\* The velocity samples among draws.
Vels(draws) == [i \in DOMAIN draws |-> draws[i].vel]

handle_key(self, key, draws) ==
    CASE key = "R" -> randomise(self, draws)
      [] key = "F" -> zeroise(self, Vels(draws))
      [] key = "C" -> centralise(self, Vels(draws))
      [] OTHER -> self

\* The agent counts of the configurations the model runs.
BoidCounts == 1..MaxBoids

\* run_simulation up to its loop: the simulation is constructed with the
\* configured number of agents and randomised, running is true.
InitDriver ==
    \E size \in Sizes, count \in BoidCounts :
        \E placed \in [1..count -> Draws(new(size))] :
            LET simulation == randomise(add_boids(new(size), count, placed),
                                        placed)
            IN  /\ boids = simulation.boids
                /\ width = simulation.width
                /\ height = simulation.height
                /\ rng = simulation.rng
                /\ ret = <<>>
                /\ op = Call("randomise", <<>>)
                /\ ticks = 0
                /\ running = TRUE
                /\ pc = "while"
                /\ polled = 0
                /\ rendered = 0
                /\ pointer = NoPointer

\* A loop that tests running only after its first statement.
LoopUpdate_untested ==
    /\ pc = "while"
    /\ ticks < MaxTicks
    /\ Store(update(Self))
    /\ ticks' = ticks + 1
    /\ pc' = "poll_events"
    /\ polled' = 0
    /\ ret' = <<>>
    /\ op' = Call("update", <<>>)
    /\ UNCHANGED <<running, rendered, pointer>>

\* while running { simulation.update(); ...: the test has passed.
LoopUpdate ==
    /\ pc = "while"
    /\ running
    /\ ticks < MaxTicks
    /\ Store(update(Self))
    /\ ticks' = ticks + 1
    /\ pc' = "poll_events"
    /\ polled' = 0
    /\ ret' = <<>>
    /\ op' = Call("update", <<>>)
    /\ UNCHANGED <<running, rendered, pointer>>

\* poll_events calls the closure with one pending event.
PollEvent ==
    /\ pc = "poll_events"
    /\ polled < MaxEvents
    /\ \E e \in Events :
           LET c == process_event(e)
           IN  /\ running' = IF c.type = "Stop" THEN FALSE ELSE running
               /\ IF c.type = "Key"
                  THEN \E draws \in KeyDraws(Self, c.key) :
                           Store(handle_key(Self, c.key, draws))
                  ELSE UNCHANGED <<boids, width, height, rng>>
               /\ pointer' =
                      CASE c.type = "MouseMove" -> set_mouse(pointer, c.x, c.y)
                        [] c.type = "MousePress" ->
                               enable_mouse_attraction(pointer)
                        [] c.type = "MouseRelease" ->
                               enable_mouse_repulsion(pointer)
                        [] OTHER -> pointer
               /\ op' = Call("event", <<e>>)
    /\ polled' = polled + 1
    /\ ret' = <<>>
    /\ UNCHANGED <<ticks, pc, rendered>>

\* poll_events returns: no event is pending.
PollDone ==
    /\ pc = "poll_events"
    /\ pc' = "render"
    /\ ret' = <<>>
    /\ op' = Call("poll_events", <<>>)
    /\ UNCHANGED <<boids, width, height, rng, ticks, running, polled,
                   rendered, pointer>>

\* renderer.render(&simulation.boids()); window.swap_buffers()?; and the rest
\* of the body.  swapped: swap_buffers returned Ok; with an Err the function
\* returns it.  ret holds what the renderer was given.
Render ==
    /\ pc = "render"
    /\ rendered' = rendered + 1
    /\ ret' = boids
    /\ op' = Call("render", <<>>)
    /\ \E swapped \in BOOLEAN : pc' = IF swapped THEN "while" ELSE "Err"
    /\ UNCHANGED <<boids, width, height, rng, ticks, running, polled, pointer>>

\* while running: the test has failed, run_simulation returns Ok(()).
LoopExit ==
    /\ pc = "while"
    /\ ~running
    /\ pc' = "Ok"
    /\ ret' = <<>>
    /\ op' = Call("return", <<>>)
    /\ UNCHANGED <<boids, width, height, rng, ticks, running, polled,
                   rendered, pointer>>

NextDriver ==
    \/ LoopUpdate
    \/ PollEvent
    \/ PollDone
    \/ Render
    \/ LoopExit

SpecDriver == InitDriver /\ [][NextDriver]_vars

\* ------------------------------------------------------------------ claims
Agents == 1..Len(boids)

IsNum(v) == ~IsNaN(v.x) /\ ~IsNaN(v.y)

\* update() with every force computed from the agents as they were when
\* update() was entered.
SnapshotUpdate(self) ==
    [i \in 1..Len(self.boids) |->
        wrap_to(boid_apply_force(self.boids[i], react_to_neighbours(self, i)),
                self.width, self.height)]

\* C1: within one update() call the force on every agent is computed from the
\* positions and velocities all agents had when update() was entered, so the
\* agents after the tick are those of the snapshot update.  Stated for the
\* ticks in which the snapshot update gives numbers to every agent, so that a
\* difference is one of the order of processing alone.
C1_ForcesFromPreTickState ==
    [][op'.name = "update"
         /\ (\A i \in Agents : IsNum(SnapshotUpdate(Self)[i].position))
       => boids' = SnapshotUpdate(Self)]_vars

\* C2: whenever update() has returned, every agent's position satisfies
\* 0 <= x < width and 0 <= y < height, the upper bounds strict.
C2_StrictContainment ==
    op.name = "update" =>
        \A i \in Agents :
            /\ IsNum(boids[i].position)
            /\ 0 <= boids[i].position.x /\ boids[i].position.x < width
            /\ 0 <= boids[i].position.y /\ boids[i].position.y < height

\* C3: in every reachable state every agent's velocity magnitude is at most
\* max_speed.
C3_SpeedBound ==
    \A i \in Agents :
        /\ IsNum(boids[i].velocity)
        /\ magnitude2(boids[i].velocity) <= MAX_SPEED * MAX_SPEED

\* C4: update() never normalizes a zero vector: a rule whose vector is zero
\* contributes a zero force.  Normalizing a zero vector is the one source of
\* NaN, so no agent ever holds NaN in its position or its velocity.
C4_NoZeroVectorNormalized ==
    \A i \in Agents : IsNum(boids[i].position) /\ IsNum(boids[i].velocity)

\* C5: the number of agents changes only through add_boids(count), which
\* appends exactly count agents behind the existing ones; every other
\* operation leaves the count unchanged, and resize and positions leave the
\* agents as they are.
C5_CountChangesOnlyByAdd ==
    [][/\ op'.name = "add_boids" =>
              /\ Len(boids') = Len(boids) + op'.arg[1]
              /\ SubSeq(boids', 1, Len(boids)) = boids
       /\ op'.name # "add_boids" => Len(boids') = Len(boids)
       /\ op'.name \in {"resize", "positions"} => boids' = boids]_vars

C5_Witness ==
    /\ op = Call("add_boids", <<1>>)
    /\ Len(boids) = 2

Centre(w, h) == Vec(Half(w), Half(h))

AllAt(self, n, p) == positions(self) = [i \in 1..n |-> p]

\* C6 as stated: after centralise() on n agents, and as long as no update()
\* has followed, positions() returns n points equal to (width/2, height/2) for
\* the current bounds.  Stated for the operations that follow centralise()
\* and move no agent, resize and positions: after them the n agents are at
\* the centre of the bounds then in force.
C6_CentreOfCurrentBounds ==
    [][op.name = "centralise" /\ op'.name \in {"resize", "positions"} =>
           AllAt(System(boids', width', height', rng'), Len(boids),
                 Centre(width', height'))]_vars

\* C6 amended: after centralise() on n agents, and until an operation that
\* moves or adds agents (update, randomise, zeroise, add_boids), positions()
\* returns n points all equal to (w/2, h/2) for the bounds w, h in force when
\* centralise() was called, whatever resize has done since; likewise after
\* zeroise() it returns n points all equal to (0, 0).  In steps: centralise
\* and zeroise put the n agents there, resize and positions leave what
\* positions() returns as it is, and positions returns it.
C6_CentreOfBoundsAtCall ==
    [][/\ op'.name = "centralise" =>
              AllAt(System(boids', width', height', rng'), Len(boids),
                    Centre(width, height))
       /\ op'.name = "zeroise" =>
              AllAt(System(boids', width', height', rng'), Len(boids), Zero)
       /\ op'.name \in {"resize", "positions"} =>
              positions(System(boids', width', height', rng')) = positions(Self)
       /\ op'.name = "positions" => ret' = positions(Self)]_vars

\* positions() has returned two points at the centre of bounds that a resize
\* has since replaced.
C6_Witness ==
    /\ op.name = "positions"
    /\ Len(ret) = 2
    /\ \E size \in Sizes :
           /\ size # <<width, height>>
           /\ ret = [i \in 1..2 |-> Centre(size[1], size[2])]

\* No other agent is within the separation, alignment or cohesion radius of
\* agent i.
Isolated(self, i) ==
    \A j \in 1..Len(self.boids) :
        j # i =>
            LET d2 == magnitude2(VSub(self.boids[i].position,
                                      self.boids[j].position))
            IN  /\ ~IsNaN(d2)
                /\ d2 >= SEP_RADIUS_2
                /\ d2 >= ALI_RADIUS_2
                /\ d2 >= COH_RADIUS_2

\* C7: an agent with no other agent within any of the three radii receives
\* zero force in update(): its velocity is unchanged and its position advances
\* by that velocity, then wraps.
C7_IsolatedAgentKeepsVelocity ==
    [][op'.name = "update" =>
           \A i \in Agents :
               Isolated(Self, i) /\ IsNum(boids[i].velocity) =>
                   /\ boids'[i].velocity = boids[i].velocity
                   /\ boids'[i] =
                          wrap_to(Boid(VAdd(boids[i].position,
                                            boids[i].velocity),
                                       boids[i].velocity),
                                  width, height)]_vars

InBounds(p, w, h) ==
    /\ 0 <= p.x /\ p.x <= w
    /\ 0 <= p.y /\ p.y <= h

Wrapped(c, bound) ==
    IF c < 0 THEN bound ELSE IF c > bound THEN 0 ELSE c

C9_FourBranchWrap ==
    op.name = "wrap_to" =>
        /\ ~IsNaN(op.arg[1]) => boids[1].position.x = Wrapped(op.arg[1], width)
        /\ ~IsNaN(op.arg[2]) => boids[1].position.y = Wrapped(op.arg[2], height)

C9_Witness ==
    /\ op.name = "wrap_to"
    /\ ~IsNaN(op.arg[1]) /\ op.arg[1] < -width
    /\ boids[1].position.x = width
    /\ ~IsNaN(op.arg[2]) /\ op.arg[2] > 2 * height
    /\ boids[1].position.y = 0

\* C10: update() takes no sample from the random source and its result does
\* not depend on the state of the random source: systems that differ in it
\* only have the same agents after update(); the state of the random source
\* changes in add_boids, randomise, centralise and zeroise only.
C10_UpdateDeterministic ==
    [][/\ op'.name = "update" =>
              /\ rng' = rng
              /\ \A r \in 0..(RngPeriod - 1) :
                     update(System(boids, width, height, r)).boids = boids'
       /\ rng' # rng =>
              op'.name \in {"add_boids", "randomise", "centralise", "zeroise"}]_vars

C10_Witness ==
    /\ op.name = "update"
    /\ rng # 0
    /\ Len(boids) = 2
    /\ \E i \in Agents : boids[i].velocity # Zero

\* The squared distance between agents i and j.
Dist2(i, j) == magnitude2(VSub(boids[i].position, boids[j].position))

\* The agents other than i at a squared distance from i that is a number,
\* is not 0 and is strictly less than r2.
Within(i, r2) ==
    {j \in Agents \ {i} :
         ~IsNaN(Dist2(i, j)) /\ Dist2(i, j) > 0 /\ Dist2(i, j) < r2}

\* The sum of the vectors f[j], j in S.
RECURSIVE VSum(_, _)
VSum(f, S) ==
    IF S = {} THEN Zero
    ELSE LET j == CHOOSE k \in S : TRUE
         IN  VAdd(f[j], VSum(f, S \ {j}))

\* The push away from agent j that separation gives agent i: the unit
\* direction from j to i, scaled by 1 / distance.
Push(i) ==
    [j \in Agents |->
        normalize_to(VSub(boids[i].position, boids[j].position),
                     Recip(Sqrt(Dist2(i, j))))]

\* C11: the scan for agent i counts neither i itself nor an agent at the
\* same position (squared distance 0) for any rule, and counts every other
\* agent for a rule exactly when its squared distance is strictly less than
\* the rule's squared radius: the alignment count and sum, the cohesion count
\* and sum and the separation accumulator are those of exactly these agents.
C11_ScanCountsStrictlyWithin ==
    op.name = "scan" =>
        LET i == op.arg[1]
        IN  /\ ret.ali_vel_count = Cardinality(Within(i, ALI_RADIUS_2))
            /\ ret.ali_vel_acc =
                   VSum([j \in Agents |-> boids[j].velocity],
                        Within(i, ALI_RADIUS_2))
            /\ ret.coh_pos_count = Cardinality(Within(i, COH_RADIUS_2))
            /\ ret.coh_pos_acc =
                   VSum([j \in Agents |-> boids[j].position],
                        Within(i, COH_RADIUS_2))
            /\ ret.dodge = VSum(Push(i), Within(i, SEP_RADIUS_2))

\* The scan has run for an agent that has one agent at its own position, one
\* at exactly the alignment radius and none else, and has counted nothing.
C11_Witness ==
    /\ op.name = "scan"
    /\ Len(boids) = 3
    /\ \E j, k \in Agents \ {op.arg[1]} :
           /\ j # k
           /\ Dist2(op.arg[1], j) = 0
           /\ Dist2(op.arg[1], k) = ALI_RADIUS_2
    /\ ret = NoNeighbours

\* The event is the press of key k.
KeyPressed(e, k) ==
    e.window /\ e.kind = "KeyboardInput" /\ e.state = "Pressed" /\ e.key = k

\* The event is a Stop: the window closed, or Escape or Q pressed.
IsStop(e) ==
    \/ e.window /\ e.kind = "Closed"
    \/ KeyPressed(e, "Escape")
    \/ KeyPressed(e, "Q")

\* The simulation after the step.
SelfAfter == System(boids', width', height', rng')

\* The step has given each of the n agents a new position and a velocity
\* of a speed in [0, max_speed), taking k samples per agent from the random
\* source, and has left the bounds as they were.
Placed(n, k) ==
    /\ Len(boids') = n
    /\ width' = width
    /\ height' = height
    /\ rng' = (rng + k * n) % RngPeriod
    /\ \A i \in 1..n :
           /\ IsNum(boids'[i].position)
           /\ IsNum(boids'[i].velocity)
           /\ magnitude2(boids'[i].velocity) < MAX_SPEED * MAX_SPEED

\* C12: in the loop of run_simulation every iteration calls update() once,
\* then handles the pending events, then renders once: update() is called
\* only when every earlier iteration has rendered, events are handled only
\* between the update and the render of an iteration, and a render closes
\* the iteration.  A Stop event (window closed, Escape or Q pressed) sets
\* running to false and nothing else does; from then on update() is not
\* called again, the iteration is finished with its render, and the loop
\* test can only leave the loop.  A pressed R, F or C does what randomise,
\* zeroise or centralise does, and every other keyboard event leaves the
\* simulation as it is.
C12_LoopOrderAndStop ==
    [][/\ ticks' # ticks =>
              /\ op'.name = "update"
              /\ running
              /\ ticks' = ticks + 1
              /\ rendered = ticks
              /\ rendered' = rendered
              /\ SelfAfter = update(Self)
       /\ op'.name = "event" =>
              /\ ticks = rendered + 1
              /\ ticks' = ticks
              /\ rendered' = rendered
       /\ rendered' # rendered =>
              /\ op'.name = "render"
              /\ rendered' = rendered + 1
              /\ rendered' = ticks
              /\ ticks' = ticks
              /\ SelfAfter = Self
       /\ op'.name = "event" /\ IsStop(op'.arg[1]) => ~running'
       /\ running' # running => op'.name = "event" /\ IsStop(op'.arg[1])
       /\ ~running => ~running' /\ ticks' = ticks
       /\ ~running /\ pc = "while" => pc' = "Ok"
       /\ pc' = "Ok" => ~running' /\ rendered' = ticks'
       /\ op'.name = "event" =>
              LET e == op'.arg[1]
                  n == Len(boids)
              IN  /\ KeyPressed(e, "R") =>
                         /\ Placed(n, 4)
                         /\ \A i \in 1..n :
                                /\ 0 <= boids'[i].position.x
                                /\ boids'[i].position.x < width
                                /\ 0 <= boids'[i].position.y
                                /\ boids'[i].position.y < height
                  /\ KeyPressed(e, "F") =>
                         /\ Placed(n, 2)
                         /\ AllAt(SelfAfter, n, Zero)
                  /\ KeyPressed(e, "C") =>
                         /\ Placed(n, 2)
                         /\ AllAt(SelfAfter, n, Centre(width, height))
                  /\ e.kind = "KeyboardInput"
                         /\ ~(\E k \in {"R", "F", "C"} : KeyPressed(e, k)) =>
                         SelfAfter = Self /\ pointer' = pointer]_vars

\* run_simulation has returned Ok after a Stop in its second iteration, both
\* iterations updated and rendered.
C12_Witness ==
    /\ pc = "Ok"
    /\ ~running
    /\ ticks = 2
    /\ rendered = 2
====
